---- MODULE Spec2Model ----
(***************************************************************************)
(* Model of the category router (src/server/api/routers/category.router.ts)*)
(* and of the auth handler (src/pages/api/auth/[...nextauth].ts).          *)
(*                                                                         *)
(* The relational store is the tables Category (cats), MenuItem (items)    *)
(* and Image (images); the image store is the set of assets it holds.      *)
(* Every `await` of a handler is a step of its own, so that the requests   *)
(* of the processes in Procs interleave where the code lets them.          *)
(***************************************************************************)
EXTENDS Integers, Sequences, FiniteSets, TLC

\* ------------------------------------------------------------------ bounds
MaxCats == 2        \* category rows ever inserted (ids are never reused)
MaxAssets == 2      \* assets ever uploaded to the image store
MaxItems == 1       \* menu items ever inserted
MaxPos == 2         \* largest newPosition a caller sends
MaxLen == 3         \* longest updatePosition list
MaxReqs == 2        \* requests the router takes in one run

Procs == {1, 2}
Users == {"u1", "u2"}
Menus == {"m1", "m2"}
Names == {"a", "b"}

\* The owner of a menu (the Menu table is not written by the router).
MenuOwner(m) == IF m = "m1" THEN "u1" ELSE "u2"

NoUrl == <<>>
Path(n) == <<n>>

VARIABLES
    cats,       \* Category table: id -> [menuId, userId, name, position, imageUrl]
    items,      \* MenuItem table: set of [id, categoryId, imageId]
    images,     \* Image table: set of image ids
    assets,     \* image store: set of paths it holds
    nextId,     \* next fresh category id
    nextAsset,  \* next fresh asset number
    nextItem,   \* next fresh menu item id
    pc,         \* per request slot: where its handler stands
    req,        \* per request slot: the input and the handler's local variables
    res,        \* per request slot: the response, once pc = "done"
    nreq,       \* requests taken so far
    envNextAuthUrl,  \* process.env.NEXTAUTH_URL
    envUrl,          \* process.env.URL
    authReq,         \* headers of the auth request handled last
    authBase,        \* base URL the handler resolved for it
    authInit         \* process.env.NEXTAUTH_URL as deployed

catVars == <<cats, items, images, assets, nextId, nextAsset, nextItem, pc, req, res, nreq>>
authVars == <<envNextAuthUrl, envUrl, authReq, authBase, authInit>>
vars == <<cats, items, images, assets, nextId, nextAsset, nextItem, pc, req, res, nreq,
          envNextAuthUrl, envUrl, authReq, authBase, authInit>>

\* ------------------------------------------------------------ store helpers
Ids == DOMAIN cats

\* where: { id_userId: { id, userId } }
Owned(id, u) == id \in Ids /\ cats[id].userId = u

\* findFirst({ orderBy: { position: "desc" }, where: { menuId, userId } })
LastCategoryItem(m, u) ==
    LET S == {c \in Ids : cats[c].menuId = m /\ cats[c].userId = u}
    IN  IF S = {} THEN {}
        ELSE {CHOOSE c \in S : \A d \in S : cats[d].position <= cats[c].position}

\* position: lastCategoryItem ? lastCategoryItem.position + 1 : 0
NextPosition(m, u) ==
    LET last == LastCategoryItem(m, u)
    IN  IF last # {} THEN cats[CHOOSE c \in last : TRUE].position + 1 ELSE 0

\* imagePaths of delete: the imageId of every item of the category that has one
ImagePaths(id) == {i.imageId : i \in {j \in items : j.categoryId = id /\ j.imageId # NoUrl}}

NoReq == [op |-> "none", user |-> "-", menuId |-> "-", id |-> 0, name |-> "-",
          img |-> FALSE, position |-> 0, imageUrl |-> NoUrl, newUrl |-> NoUrl,
          imagePaths |-> {}, list |-> <<>>, calls |-> <<>>]
NoRes == [ok |-> FALSE, err |-> "-", rows |-> <<>>]
OkRes == [ok |-> TRUE, err |-> "-", rows |-> <<>>]
Fail(e) == [ok |-> FALSE, err |-> e, rows |-> <<>>]

\* A request is taken by the lowest free slot (the slots are interchangeable).
Free(p) == pc[p] = "idle" /\ \A q \in Procs : q < p => pc[q] # "idle"

\* The ids a caller sends: those handed out so far and one not yet handed out.
KnownIds == 1..(IF nextId <= MaxCats THEN nextId ELSE MaxCats)

InFlightCreates == Cardinality({p \in Procs : req[p].op = "create" /\ pc[p] # "done"})
InFlightUploads == Cardinality({p \in Procs : pc[p] \in {"c_upload", "u_delold", "u_upload"}})

\* A request is taken (counted) or a handler goes on.
Taken == nreq < MaxReqs /\ nreq' = nreq + 1
Going == UNCHANGED nreq

\* ------------------------------------------------------------------- Init
CatInit ==
    /\ cats = <<>>
    /\ items = {}
    /\ images = {}
    /\ assets = {}
    /\ nextId = 1
    /\ nextAsset = 1
    /\ nextItem = 1
    /\ pc = [p \in Procs |-> "idle"]
    /\ req = [p \in Procs |-> NoReq]
    /\ res = [p \in Procs |-> NoRes]
    /\ nreq = 0

AuthIdle ==
    /\ envNextAuthUrl = NoUrl
    /\ envUrl = NoUrl
    /\ authReq = <<>>
    /\ authBase = NoUrl
    /\ authInit = NoUrl

Init == CatInit /\ AuthIdle

\* ----------------------------------------------------------------- create
\* lines 12-25: the read transaction and createData
CreateRead(p, u, m, name, img) ==
    /\ Free(p)
    /\ nextId + InFlightCreates <= MaxCats
    /\ img => nextAsset + InFlightUploads <= MaxAssets
    /\ req' = [req EXCEPT ![p] = [NoReq EXCEPT !.op = "create", !.user = u, !.menuId = m,
                                   !.name = name, !.img = img,
                                   !.position = NextPosition(m, u)]]
    /\ pc' = [pc EXCEPT ![p] = IF img THEN "c_upload" ELSE "c_insert"]
    /\ UNCHANGED <<cats, items, images, assets, nextId, nextAsset, nextItem, res>>
    /\ UNCHANGED authVars

\* lines 27-34: Promise.all([uploadImage, encodeImageToBlurhash, getColor])
CreateUpload(p, uploadOk, restOk) ==
    /\ pc[p] = "c_upload"
    /\ assets' = IF uploadOk THEN assets \cup {Path(nextAsset)} ELSE assets
    /\ nextAsset' = IF uploadOk THEN nextAsset + 1 ELSE nextAsset
    /\ IF uploadOk /\ restOk
       THEN /\ req' = [req EXCEPT ![p].newUrl = Path(nextAsset),
                                  ![p].calls = Append(@, <<"upload", Path(nextAsset), TRUE>>)]
            /\ pc' = [pc EXCEPT ![p] = "c_insert"]
            /\ UNCHANGED res
       ELSE /\ req' = [req EXCEPT ![p].calls =
                          Append(@, IF uploadOk THEN <<"upload", Path(nextAsset), TRUE>>
                                    ELSE <<"upload", NoUrl, FALSE>>)]
            /\ pc' = [pc EXCEPT ![p] = "done"]
            /\ res' = [res EXCEPT ![p] = Fail(IF uploadOk THEN "image" ELSE "upload")]
    /\ UNCHANGED <<cats, items, images, nextId, nextItem>>
    /\ UNCHANGED authVars

\* lines 36-39: prisma.category.create
CreateInsert(p) ==
    /\ pc[p] = "c_insert"
    /\ cats' = [c \in Ids \cup {nextId} |->
                  IF c = nextId
                  THEN [menuId |-> req[p].menuId, userId |-> req[p].user,
                        name |-> req[p].name, position |-> req[p].position,
                        imageUrl |-> req[p].newUrl]
                  ELSE cats[c]]
    /\ nextId' = nextId + 1
    /\ req' = [req EXCEPT ![p].id = nextId]
    /\ pc' = [pc EXCEPT ![p] = "done"]
    /\ res' = [res EXCEPT ![p] = OkRes]
    /\ UNCHANGED <<items, images, assets, nextAsset, nextItem>>
    /\ UNCHANGED authVars

\* The response is returned to the client; the slot takes the next request.
Respond(p) ==
    /\ pc[p] = "done"
    /\ pc' = [pc EXCEPT ![p] = "idle"]
    /\ req' = [req EXCEPT ![p] = NoReq]
    /\ res' = [res EXCEPT ![p] = NoRes]
    /\ UNCHANGED <<cats, items, images, assets, nextId, nextAsset, nextItem>>
    /\ UNCHANGED authVars

\* ----------------------------------------------------------------- delete
\* lines 44-56: findUniqueOrThrow({ include: { items }, where: { id_userId } })
DeleteFind(p, u, id) ==
    /\ Free(p)
    /\ IF Owned(id, u)
       THEN /\ req' = [req EXCEPT ![p] = [NoReq EXCEPT !.op = "delete", !.user = u, !.id = id,
                                          !.menuId = cats[id].menuId,
                                          !.imageUrl = cats[id].imageUrl,
                                          !.imagePaths = ImagePaths(id)]]
            /\ pc' = [pc EXCEPT ![p] = IF cats[id].imageUrl # NoUrl THEN "d_image" ELSE "d_tx"]
            /\ UNCHANGED res
       ELSE /\ req' = [req EXCEPT ![p] = [NoReq EXCEPT !.op = "delete", !.user = u, !.id = id]]
            /\ pc' = [pc EXCEPT ![p] = "done"]
            /\ res' = [res EXCEPT ![p] = Fail("notfound")]
    /\ UNCHANGED <<cats, items, images, assets, nextId, nextAsset, nextItem>>
    /\ UNCHANGED authVars

\* imageKit.deleteFile(path): removes the asset, or throws and removes nothing
DeleteFile(path, ok) == IF ok THEN assets \ {path} ELSE assets

\* deleteFile of the category image without the try/catch.
DeleteImageUncaught(p, ok) ==
    /\ pc[p] = "d_image"
    /\ assets' = DeleteFile(req[p].imageUrl, ok)
    /\ req' = [req EXCEPT ![p].calls = Append(@, <<"deleteFile", req[p].imageUrl, ok>>)]
    /\ pc' = [pc EXCEPT ![p] = IF ok THEN "d_tx" ELSE "done"]
    /\ res' = IF ok THEN res ELSE [res EXCEPT ![p] = Fail("image")]
    /\ UNCHANGED <<cats, items, images, nextId, nextAsset, nextItem>>
    /\ UNCHANGED authVars

\* lines 59-65: try { await imageKit.deleteFile(currentItem.imageUrl) } catch { log }
DeleteImage(p, ok) ==
    /\ pc[p] = "d_image"
    /\ assets' = DeleteFile(req[p].imageUrl, ok)
    /\ req' = [req EXCEPT ![p].calls = Append(@, <<"deleteFile", req[p].imageUrl, ok>>)]
    /\ pc' = [pc EXCEPT ![p] = "d_tx"]
    /\ UNCHANGED <<cats, items, images, nextId, nextAsset, nextItem, res>>
    /\ UNCHANGED authVars

\* lines 67-78: bulkDeleteFiles is started and never awaited (promiseList is an
\* array handed to Promise.all as a plain value); the transaction deletes the
\* items, the category (throwing when it is gone) and the Image rows.
DeleteTx(p, txOk, bulkOk) ==
    /\ pc[p] = "d_tx"
    /\ assets' = IF bulkOk THEN assets \ req[p].imagePaths ELSE assets
    /\ req' = [req EXCEPT ![p].calls =
                  (IF req[p].imagePaths # {}
                   THEN Append(@, <<"bulkDeleteFiles", req[p].imagePaths, bulkOk>>) ELSE @)
                  \o <<(<<"transaction", NoUrl, txOk>>)>>]
    /\ IF txOk /\ Owned(req[p].id, req[p].user)
       THEN /\ items' = {i \in items : i.categoryId # req[p].id}
            /\ cats' = [c \in Ids \ {req[p].id} |-> cats[c]]
            /\ images' = images \ req[p].imagePaths
            /\ res' = [res EXCEPT ![p] = OkRes]
       ELSE /\ UNCHANGED <<items, cats, images>>
            /\ res' = [res EXCEPT ![p] = Fail(IF txOk THEN "notfound" ELSE "store")]
    /\ pc' = [pc EXCEPT ![p] = "done"]
    /\ UNCHANGED <<nextId, nextAsset, nextItem>>
    /\ UNCHANGED authVars

\* ----------------------------------------------------------------- getAll
\* The orders findMany({ orderBy: { position: "asc" } }) can return the rows in
\* (the store is free in the order of rows of equal position).
RECURSIVE Perms(_)
Perms(S) ==
    IF S = {} THEN {<<>>}
    ELSE UNION {{<<x>> \o t : t \in Perms(S \ {x})} : x \in S}

\* orderBy: { position: "desc" }
Descending(s) == \A i \in 1..(Len(s) - 1) : cats[s[i]].position >= cats[s[i + 1]].position

Ascending(s) == \A i \in 1..(Len(s) - 1) : cats[s[i]].position <= cats[s[i + 1]].position

GetAllResults(u, m) ==
    {s \in Perms({c \in Ids : cats[c].menuId = m /\ cats[c].userId = u}) : Ascending(s)}

\* lines 84-90
GetAll(p, u, m) ==
    /\ Free(p)
    /\ req' = [req EXCEPT ![p] = [NoReq EXCEPT !.op = "getAll", !.user = u, !.menuId = m]]
    /\ \E s \in GetAllResults(u, m) : res' = [res EXCEPT ![p] = [OkRes EXCEPT !.rows = s]]
    /\ pc' = [pc EXCEPT ![p] = "done"]
    /\ UNCHANGED <<cats, items, images, assets, nextId, nextAsset, nextItem>>
    /\ UNCHANGED authVars

\* ----------------------------------------------------------------- update
\* lines 94-98: findUniqueOrThrow({ where: { id_userId } })
UpdateFind(p, u, id, name, img) ==
    /\ Free(p)
    /\ img => nextAsset + InFlightUploads <= MaxAssets
    /\ IF Owned(id, u)
       THEN /\ req' = [req EXCEPT ![p] = [NoReq EXCEPT !.op = "update", !.user = u, !.id = id,
                                          !.name = name, !.img = img,
                                          !.menuId = cats[id].menuId,
                                          !.imageUrl = cats[id].imageUrl]]
            /\ pc' = [pc EXCEPT ![p] = IF ~img THEN "u_write"
                                       ELSE IF cats[id].imageUrl # NoUrl THEN "u_delold"
                                       ELSE "u_upload"]
            /\ UNCHANGED res
       ELSE /\ req' = [req EXCEPT ![p] = [NoReq EXCEPT !.op = "update", !.user = u, !.id = id,
                                          !.name = name, !.img = img]]
            /\ pc' = [pc EXCEPT ![p] = "done"]
            /\ res' = [res EXCEPT ![p] = Fail("notfound")]
    /\ UNCHANGED <<cats, items, images, assets, nextId, nextAsset, nextItem>>
    /\ UNCHANGED authVars

\* deleteFile of the old image without the try/catch.
UpdateDeleteOldUncaught(p, ok) ==
    /\ pc[p] = "u_delold"
    /\ assets' = DeleteFile(req[p].imageUrl, ok)
    /\ req' = [req EXCEPT ![p].calls = Append(@, <<"deleteFile", req[p].imageUrl, ok>>)]
    /\ pc' = [pc EXCEPT ![p] = IF ok THEN "u_upload" ELSE "done"]
    /\ res' = IF ok THEN res ELSE [res EXCEPT ![p] = Fail("image")]
    /\ UNCHANGED <<cats, items, images, nextId, nextAsset, nextItem>>
    /\ UNCHANGED authVars

\* lines 103-109: try { await imageKit.deleteFile(currentItem.imageUrl) } catch { log }
UpdateDeleteOld(p, ok) ==
    /\ pc[p] = "u_delold"
    /\ assets' = DeleteFile(req[p].imageUrl, ok)
    /\ req' = [req EXCEPT ![p].calls = Append(@, <<"deleteFile", req[p].imageUrl, ok>>)]
    /\ pc' = [pc EXCEPT ![p] = "u_upload"]
    /\ UNCHANGED <<cats, items, images, nextId, nextAsset, nextItem, res>>
    /\ UNCHANGED authVars

\* The upload of update with its failure caught: the write goes ahead.
UpdateUploadCaught(p, uploadOk) ==
    /\ pc[p] = "u_upload"
    /\ assets' = IF uploadOk THEN assets \cup {Path(nextAsset)} ELSE assets
    /\ nextAsset' = IF uploadOk THEN nextAsset + 1 ELSE nextAsset
    /\ req' = [req EXCEPT ![p].newUrl = IF uploadOk THEN Path(nextAsset) ELSE req[p].imageUrl,
                          ![p].calls = Append(@, IF uploadOk
                                                 THEN <<"upload", Path(nextAsset), TRUE>>
                                                 ELSE <<"upload", NoUrl, FALSE>>)]
    /\ pc' = [pc EXCEPT ![p] = "u_write"]
    /\ UNCHANGED <<cats, items, images, nextId, nextItem, res>>
    /\ UNCHANGED authVars

\* lines 111-114: Promise.all([uploadImage(...)])
UpdateUpload(p, uploadOk) ==
    /\ pc[p] = "u_upload"
    /\ IF uploadOk
       THEN /\ assets' = assets \cup {Path(nextAsset)}
            /\ nextAsset' = nextAsset + 1
            /\ req' = [req EXCEPT ![p].newUrl = Path(nextAsset),
                                  ![p].calls = Append(@, <<"upload", Path(nextAsset), TRUE>>)]
            /\ pc' = [pc EXCEPT ![p] = "u_write"]
            /\ UNCHANGED res
       ELSE /\ UNCHANGED <<assets, nextAsset>>
            /\ req' = [req EXCEPT ![p].calls = Append(@, <<"upload", NoUrl, FALSE>>)]
            /\ pc' = [pc EXCEPT ![p] = "done"]
            /\ res' = [res EXCEPT ![p] = Fail("upload")]
    /\ UNCHANGED <<cats, items, images, nextId, nextItem>>
    /\ UNCHANGED authVars

\* lines 117-120: prisma.category.update({ data: updateData, where: { id_userId } })
UpdateWrite(p) ==
    /\ pc[p] = "u_write"
    /\ IF Owned(req[p].id, req[p].user)
       THEN /\ cats' = [cats EXCEPT ![req[p].id].name = req[p].name,
                                    ![req[p].id].imageUrl =
                                        IF req[p].img THEN req[p].newUrl ELSE @]
            /\ res' = [res EXCEPT ![p] = OkRes]
       ELSE /\ UNCHANGED cats
            /\ res' = [res EXCEPT ![p] = Fail("notfound")]
    /\ pc' = [pc EXCEPT ![p] = "done"]
    /\ UNCHANGED <<items, images, assets, nextId, nextAsset, nextItem, req>>
    /\ UNCHANGED authVars

\* --------------------------------------------------------- updatePosition
\* The entries a caller sends: a known id (or one not handed out) and a position.
Entries == [id : 1..nextId, newPosition : 0..MaxPos]

\* z.array(...): the lists of n entries
Lists(n) == [1..n -> Entries]

\* The updates of the transaction, applied in the order of the list.
RECURSIVE ApplyFrom(_, _, _)
ApplyFrom(c, list, i) ==
    IF i > Len(list) THEN c
    ELSE ApplyFrom([c EXCEPT ![list[i].id].position = list[i].newPosition], list, i + 1)

ApplyAll(c, list) == ApplyFrom(c, list, 1)

\* Every update of the transaction finds its row (where: { id_userId }).
AllFound(u, list) == \A i \in 1..Len(list) : Owned(list[i].id, u)

\* The updates of the list issued one by one, outside a transaction: those
\* before the first that finds no row stay applied.
RECURSIVE FoundPrefix(_, _, _)
FoundPrefix(u, list, i) ==
    IF i > Len(list) \/ ~Owned(list[i].id, u) THEN i - 1 ELSE FoundPrefix(u, list, i + 1)

UpdatePositionEach(p, u, list) ==
    /\ Free(p)
    /\ req' = [req EXCEPT ![p] = [NoReq EXCEPT !.op = "updatePosition", !.user = u,
                                  !.list = list]]
    /\ cats' = ApplyAll(cats, SubSeq(list, 1, FoundPrefix(u, list, 1)))
    /\ res' = [res EXCEPT ![p] = IF AllFound(u, list) THEN OkRes ELSE Fail("notfound")]
    /\ pc' = [pc EXCEPT ![p] = "done"]
    /\ UNCHANGED <<items, images, assets, nextId, nextAsset, nextItem>>
    /\ UNCHANGED authVars

\* lines 124-136: prisma.$transaction(input.map(update)): all updates or none
UpdatePosition(p, u, list) ==
    /\ Free(p)
    /\ req' = [req EXCEPT ![p] = [NoReq EXCEPT !.op = "updatePosition", !.user = u,
                                  !.list = list]]
    /\ IF AllFound(u, list)
       THEN /\ cats' = ApplyAll(cats, list)
            /\ res' = [res EXCEPT ![p] = OkRes]
       ELSE /\ UNCHANGED cats
            /\ res' = [res EXCEPT ![p] = Fail("notfound")]
    /\ pc' = [pc EXCEPT ![p] = "done"]
    /\ UNCHANGED <<items, images, assets, nextId, nextAsset, nextItem>>
    /\ UNCHANGED authVars

\* --------------------------------------------------------------- MenuItem
\* An item is added to a category, with or without an image (the item
\* router's create: a MenuItem row, an Image row and its asset).
AddMenuItem(c, img) ==
    /\ nextItem <= MaxItems
    /\ c \in Ids
    /\ img => nextAsset + InFlightUploads <= MaxAssets
    /\ items' = items \cup {[id |-> nextItem, categoryId |-> c,
                             imageId |-> IF img THEN Path(nextAsset) ELSE NoUrl]}
    /\ images' = IF img THEN images \cup {Path(nextAsset)} ELSE images
    /\ assets' = IF img THEN assets \cup {Path(nextAsset)} ELSE assets
    /\ nextAsset' = IF img THEN nextAsset + 1 ELSE nextAsset
    /\ nextItem' = nextItem + 1
    /\ UNCHANGED <<cats, nextId, pc, req, res>>
    /\ UNCHANGED authVars

\* ------------------------------------------------------------------- Next
\* The router without updatePosition and without the item router: two slots.
Next ==
    \/ Taken /\ \E p \in Procs, u \in Users, m \in Menus, img \in BOOLEAN :
          CreateRead(p, u, m, "a", img)
    \/ Going /\ \E p \in Procs, uploadOk \in BOOLEAN, restOk \in BOOLEAN :
          CreateUpload(p, uploadOk, restOk)
    \/ Going /\ \E p \in Procs : CreateInsert(p)
    \/ Taken /\ \E p \in Procs, u \in Users, id \in KnownIds : DeleteFind(p, u, id)
    \/ Going /\ \E p \in Procs, ok \in BOOLEAN : DeleteImage(p, ok)
    \/ Going /\ \E p \in Procs, txOk \in BOOLEAN, bulkOk \in BOOLEAN : DeleteTx(p, txOk, bulkOk)
    \/ Taken /\ \E p \in Procs, u \in Users, m \in Menus : GetAll(p, u, m)
    \/ Taken /\ \E p \in Procs, u \in Users, id \in KnownIds, n \in Names, img \in BOOLEAN :
          UpdateFind(p, u, id, n, img)
    \/ Going /\ \E p \in Procs, ok \in BOOLEAN : UpdateDeleteOld(p, ok)
    \/ Going /\ \E p \in Procs, ok \in BOOLEAN : UpdateUpload(p, ok)
    \/ Going /\ \E p \in Procs : UpdateWrite(p)
    \/ Going /\ \E p \in Procs : Respond(p)

Spec == Init /\ [][Next]_vars

\* create, delete and the item router's create: two slots.
NextDel ==
    \/ Taken /\ \E p \in Procs, u \in Users, m \in Menus, img \in BOOLEAN :
          CreateRead(p, u, m, "a", img)
    \/ Going /\ \E p \in Procs, uploadOk \in BOOLEAN, restOk \in BOOLEAN :
          CreateUpload(p, uploadOk, restOk)
    \/ Going /\ \E p \in Procs : CreateInsert(p)
    \/ Taken /\ \E p \in Procs, u \in Users, id \in KnownIds : DeleteFind(p, u, id)
    \/ Going /\ \E p \in Procs, ok \in BOOLEAN : DeleteImage(p, ok)
    \/ Going /\ \E p \in Procs, txOk \in BOOLEAN, bulkOk \in BOOLEAN : DeleteTx(p, txOk, bulkOk)
    \/ Going /\ \E c \in KnownIds, img \in BOOLEAN : AddMenuItem(c, img)
    \/ Going /\ \E p \in Procs : Respond(p)

SpecDel == Init /\ [][NextDel]_vars

\* create calls made one after another: one slot.
NextSeq ==
    \/ Taken /\ \E u \in Users, m \in Menus, n \in Names, img \in BOOLEAN :
          CreateRead(1, u, m, n, img)
    \/ Going /\ \E uploadOk \in BOOLEAN, restOk \in BOOLEAN : CreateUpload(1, uploadOk, restOk)
    \/ Going /\ CreateInsert(1)
    \/ Going /\ Respond(1)

SpecSeq == Init /\ [][NextSeq]_vars

\* updatePosition and getAll on a store of two categories created one after
\* the other: both by u1 in the menu m1, or the second by u2 in the menu m2.
\* One slot.
PosInit ==
    /\ \E second \in {<<"m1", "u1", 1>>, <<"m2", "u2", 0>>} :
          cats = <<[menuId |-> "m1", userId |-> "u1", name |-> "a", position |-> 0,
                    imageUrl |-> NoUrl],
                   [menuId |-> second[1], userId |-> second[2], name |-> "a",
                    position |-> second[3], imageUrl |-> NoUrl]>>
    /\ nextId = Len(cats) + 1
    /\ items = {}
    /\ images = {}
    /\ assets = {}
    /\ nextAsset = 1
    /\ nextItem = 1
    /\ pc = [p \in Procs |-> "idle"]
    /\ req = [p \in Procs |-> NoReq]
    /\ res = [p \in Procs |-> NoRes]
    /\ nreq = 0
    /\ AuthIdle

NextPos ==
    \/ Going /\ Free(1) /\ \E u \in Users, n \in 0..MaxLen : \E list \in Lists(n) :
          UpdatePosition(1, u, list)
    \/ Going /\ \E u \in Users, m \in Menus : GetAll(1, u, m)
    \/ Going /\ Respond(1)

SpecPos == PosInit /\ [][NextPos]_vars

\* ------------------------------------------------------------ auth handler
\* A URL `${protocol}://${host}` is the pair of its protocol and host; an unset
\* variable or an absent header is the empty string (falsy in the code).
Hosts == {"", "h1", "h2"}
Protos == {"", "http"}
Headers == [xfh : Hosts, host : Hosts, xfp : Protos]
Url(protocol, host) == <<protocol, host>>

\* lines 11-32: getBaseUrl(req), with process.env as it stands
getBaseUrl(nextAuthUrl, url, h) ==
    IF nextAuthUrl # NoUrl THEN nextAuthUrl
    ELSE LET host == IF h.xfh # "" THEN h.xfh ELSE h.host
             protocol == IF h.xfp # "" THEN h.xfp ELSE "https"
         IN  IF host # "" THEN Url(protocol, host)
             ELSE IF url # NoUrl THEN url
             ELSE NoUrl

\* lines 82-93: the handler, up to the call of NextAuth
handler(h) ==
    LET baseUrl == getBaseUrl(envNextAuthUrl, envUrl, h)
    IN  /\ envNextAuthUrl' = IF baseUrl # NoUrl /\ envNextAuthUrl = NoUrl
                             THEN baseUrl ELSE envNextAuthUrl
        /\ authBase' = baseUrl
        /\ authReq' = <<h>>
        /\ UNCHANGED <<envUrl, authInit>>
        /\ UNCHANGED catVars

\* The deployment sets NEXTAUTH_URL and URL, or leaves them unset.
AuthInit ==
    /\ envNextAuthUrl \in {NoUrl, Url("https", "configured")}
    /\ envUrl \in {NoUrl, Url("https", "platform")}
    /\ authInit = envNextAuthUrl
    /\ authReq = <<>>
    /\ authBase = NoUrl
    /\ CatInit

NextAuth == \E h \in Headers : handler(h)

SpecAuth == AuthInit /\ [][NextAuth]_vars

\* ================================================================== claims
\* The step on which the response of slot p is decided.
Responds(p) == pc[p] # "done" /\ pc'[p] = "done"

Quiet == \A p \in Procs : pc[p] \in {"idle", "done"}

Before(s, b, a) == \E x, y \in DOMAIN s : x < y /\ s[x] = b /\ s[y] = a

\* ---------------------------------------------------------------------- C1
\* The id of the call that slot p answers belongs to another user than the
\* caller: the menu for create and getAll, the category for update and delete,
\* some entry's category for updatePosition.
ForeignCall(p) ==
    LET r == req'[p]
    IN  \/ r.op \in {"create", "getAll"} /\ MenuOwner(r.menuId) # r.user
        \/ r.op \in {"update", "delete"} /\ r.id \in Ids /\ cats[r.id].userId # r.user
        \/ r.op = "updatePosition" /\ \E i \in DOMAIN r.list :
              r.list[i].id \in Ids /\ cats[r.list[i].id].userId # r.user

\* C1: a call of any of the five operations with an id that belongs to another
\* user fails with not-found and changes no stored row.
C1_ForeignIdFails ==
    [][\A p \in Procs : Responds(p) /\ ForeignCall(p) =>
          /\ ~res'[p].ok
          /\ res'[p].err = "notfound"
          /\ cats' = cats /\ items' = items /\ images' = images]_vars

\* ---------------------------------------------------------------------- C2
\* C2: no two categories of the same menu have the same position.
C2_UniquePositionPerMenu ==
    \A c, d \in Ids : c # d /\ cats[c].menuId = cats[d].menuId =>
        cats[c].position # cats[d].position

\* ---------------------------------------------------------------------- C3
\* C3: creates made one after another in a menu that started empty give the
\* positions 0, 1, 2, ... in the order of creation (ids are handed out in that
\* order and nothing is deleted): a category's position is the number of
\* categories created before it in its menu.
C3_SequentialPositions ==
    \A c \in Ids :
        cats[c].position = Cardinality({d \in Ids : d < c /\ cats[d].menuId = cats[c].menuId})

\* ---------------------------------------------------------------------- C4
FailedCall(p, name) ==
    \E i \in DOMAIN req[p].calls : req[p].calls[i][1] = name /\ ~req[p].calls[i][3]

\* C4: a delete of a category the caller owns goes on to the store transaction
\* whatever deleteFile does, and once the transaction goes through the call
\* succeeds whatever bulkDeleteFiles does, with the category row and every
\* MenuItem row of the category gone; an id that is gone is in no later getAll.
C4_DeleteRemovesRows ==
    [][/\ \A p \in Procs :
            /\ pc[p] = "d_image" /\ pc'[p] # "d_image" => pc'[p] = "d_tx"
            /\ pc[p] = "d_tx" /\ pc'[p] = "done" =>
                 LET id == req[p].id
                     tx == req'[p].calls[Len(req'[p].calls)]
                 IN  /\ tx[1] = "transaction"
                     /\ tx[3] /\ Owned(id, req[p].user) =>
                           /\ res'[p].ok
                           /\ id \notin DOMAIN cats'
                           /\ \A i \in items' : i.categoryId # id
                     /\ res'[p].ok => tx[3] /\ id \notin DOMAIN cats'
       /\ \A c \in 1..(nextId - 1) : c \notin Ids =>
            \A u \in Users, m \in Menus : \A s \in (GetAllResults(u, m))' :
                \A x \in DOMAIN s : s[x] # c]_vars

\* A delete succeeded although deleteFile and bulkDeleteFiles both threw.
C4_Witness ==
    \E p \in Procs :
        /\ pc[p] = "done" /\ req[p].op = "delete" /\ res[p].ok
        /\ FailedCall(p, "deleteFile") /\ FailedCall(p, "bulkDeleteFiles")
        /\ req[p].id \notin Ids
        /\ req[p].imageUrl \in assets

\* ---------------------------------------------------------------------- C6
HasFailedUpload(p) ==
    \E i \in DOMAIN req[p].calls : req[p].calls[i][1] = "upload" /\ ~req[p].calls[i][3]

\* C6: once the upload of a create or an update has failed the call is over and
\* has failed; a create has inserted no row; and no step of a call with an
\* imageBase64 writes a category row before its upload has succeeded.
C6_FailedUploadAborts ==
    [][\A p \in Procs :
          /\ HasFailedUpload(p)' =>
                /\ pc'[p] = "done"
                /\ ~res'[p].ok
                /\ req'[p].op \in {"create", "update"}
                /\ req'[p].op = "create" => req'[p].id \notin DOMAIN cats'
          /\ HasFailedUpload(p)' /\ ~HasFailedUpload(p) => cats' = cats
          /\ req'[p].img /\ pc'[p] # pc[p] /\ pc[p] \in {"idle", "c_upload", "u_delold", "u_upload"}
                => cats' = cats]_vars

\* An update with a new name and image failed in its upload; the row still
\* has its old name and imageUrl.
C6_Witness ==
    \E p \in Procs :
        /\ pc[p] = "done" /\ req[p].op = "update" /\ HasFailedUpload(p)
        /\ req[p].id \in Ids
        /\ cats[req[p].id].name # req[p].name
        /\ cats[req[p].id].imageUrl = req[p].imageUrl
        /\ req[p].imageUrl # NoUrl

\* ---------------------------------------------------------------------- C7
\* C7: an update with an imageBase64 of a category that has an imageUrl calls
\* deleteFile on that imageUrl before anything else, goes on to the upload
\* whether deleteFile threw or not, and its write (of the row it still owns)
\* succeeds with the new name and the uploaded path.
C7_DeleteOldThenUpload ==
    [][\A p \in Procs :
          /\ pc[p] = "u_delold" /\ pc'[p] # "u_delold" =>
                /\ pc'[p] = "u_upload"
                /\ Len(req'[p].calls) = 1
                /\ req'[p].calls[1][1] = "deleteFile"
                /\ req'[p].calls[1][2] = req[p].imageUrl
          /\ pc[p] = "u_upload" /\ pc'[p] # "u_upload" /\ req[p].imageUrl # NoUrl =>
                /\ Len(req[p].calls) = 1
                /\ req[p].calls[1][1] = "deleteFile"
                /\ req[p].calls[1][2] = req[p].imageUrl
          /\ pc[p] = "u_write" /\ pc'[p] = "done" /\ Owned(req[p].id, req[p].user) =>
                /\ res'[p].ok
                /\ cats'[req[p].id].name = req[p].name
                /\ req[p].img =>
                      /\ cats'[req[p].id].imageUrl = req[p].newUrl
                      /\ req[p].newUrl \in assets
                      /\ req[p].calls[Len(req[p].calls)] = <<"upload", req[p].newUrl, TRUE>>]_vars

\* An update replaced the image although deleteFile of the old one threw.
C7_Witness ==
    \E p \in Procs :
        /\ pc[p] = "done" /\ req[p].op = "update" /\ res[p].ok
        /\ req[p].imageUrl # NoUrl
        /\ req[p].calls = <<(<<"deleteFile", req[p].imageUrl, FALSE>>),
                            (<<"upload", req[p].newUrl, TRUE>>)>>
        /\ req[p].id \in Ids
        /\ cats[req[p].id].imageUrl = req[p].newUrl
        /\ cats[req[p].id].name = req[p].name

\* --------------------------------------------------------------------- C10
\* C10: when no call is under way every category row that has an imageUrl
\* refers to an asset the image store holds.
C10_ImageUrlHasAsset ==
    Quiet => \A c \in Ids : cats[c].imageUrl # NoUrl => cats[c].imageUrl \in assets

\* ---------------------------------------------------------------------- C5
IsLast(list, i) == \A j \in DOMAIN list : j > i => list[j].id # list[i].id

\* The position the list gives category c: that of the last entry naming it.
Given(list, c) == list[CHOOSE i \in DOMAIN list : list[i].id = c /\ IsLast(list, i)].newPosition

\* C5: an updatePosition whose list names a category that does not exist or
\* is not the caller's fails and leaves every row as it was; any other list is
\* applied whole in the one step: every category it names has the position the
\* list gives it and every other row is as it was, so that no state between the
\* two is there for a getAll to read.
C5_UpdatePositionAtomic ==
    [][\A p \in Procs : Responds(p) /\ req'[p].op = "updatePosition" =>
          LET list == req'[p].list
              u == req'[p].user
          IN  IF \E i \in DOMAIN list : ~(list[i].id \in Ids /\ cats[list[i].id].userId = u)
              THEN cats' = cats /\ ~res'[p].ok
              ELSE /\ res'[p].ok
                   /\ DOMAIN cats' = Ids
                   /\ \A c \in Ids :
                        cats'[c] = IF \E i \in DOMAIN list : list[i].id = c
                                   THEN [cats[c] EXCEPT !.position = Given(list, c)]
                                   ELSE cats[c]]_vars

\* An updatePosition failed on a list whose first entry would have moved a
\* category of the caller and whose later entry names no category of theirs.
C5_Witness ==
    \E p \in Procs :
        /\ pc[p] = "done" /\ req[p].op = "updatePosition" /\ ~res[p].ok
        /\ \E i, j \in DOMAIN req[p].list :
              /\ i < j
              /\ Owned(req[p].list[i].id, req[p].user)
              /\ cats[req[p].list[i].id].position # req[p].list[i].newPosition
              /\ ~Owned(req[p].list[j].id, req[p].user)

\* ---------------------------------------------------------------------- C8
\* The updatePosition that slot p has just answered succeeded on a list of
\* categories of the menu m.
UpdatedMenu(p, m) ==
    /\ pc[p] = "done" /\ req[p].op = "updatePosition" /\ res[p].ok
    /\ req[p].list # <<>>
    /\ \A i \in DOMAIN req[p].list : cats[req[p].list[i].id].menuId = m

\* C8 as claimed: after a successful updatePosition on categories of one menu,
\* getAll of that menu returns B before A for any two entries A and B (of
\* different categories) with A.newPosition > B.newPosition.
C8_EntriesOrdered ==
    \A p \in Procs, m \in Menus : UpdatedMenu(p, m) =>
        \A s \in GetAllResults(req[p].user, m) : \A i, j \in DOMAIN req[p].list :
            /\ req[p].list[i].id # req[p].list[j].id
            /\ req[p].list[i].newPosition > req[p].list[j].newPosition
            => Before(s, req[p].list[j].id, req[p].list[i].id)

\* C8 as amended: the same for any two entries A and B that are each the last
\* entry of the list for their category.
C8_LastEntriesOrdered ==
    \A p \in Procs, m \in Menus : UpdatedMenu(p, m) =>
        \A s \in GetAllResults(req[p].user, m) : \A i, j \in DOMAIN req[p].list :
            /\ req[p].list[i].id # req[p].list[j].id
            /\ IsLast(req[p].list, i) /\ IsLast(req[p].list, j)
            /\ req[p].list[i].newPosition > req[p].list[j].newPosition
            => Before(s, req[p].list[j].id, req[p].list[i].id)

\* An updatePosition succeeded on a list that swaps two categories of a menu
\* and names one of them twice.
C8_Witness ==
    \E p \in Procs, m \in Menus :
        /\ UpdatedMenu(p, m)
        /\ \E i, j \in DOMAIN req[p].list :
              /\ req[p].list[i].id < req[p].list[j].id
              /\ IsLast(req[p].list, i) /\ IsLast(req[p].list, j)
              /\ req[p].list[i].newPosition > req[p].list[j].newPosition
        /\ \E i \in DOMAIN req[p].list : ~IsLast(req[p].list, i)

\* ---------------------------------------------------------------------- C9
\* C9: the base URL resolved for an auth request is the one getBaseUrl gives
\* for the deployment's configuration and the request's own headers.
C9_BaseUrlOfOwnRequest ==
    authReq # <<>> => authBase = getBaseUrl(authInit, envUrl, authReq[1])
====
